---------------------------- MODULE Spec2Model ----------------------------
(***************************************************************************)
(* A model of new_api1.py: the /api/analyze handler (analyze_data), the    *)
(* text-generation wrapper (call_ai_model) and the module-level results    *)
(* log (analysis_results).                                                 *)
(*                                                                         *)
(* Python values are modelled with a uniform shape so that values of       *)
(* different Python types stay comparable:                                 *)
(*   - a score is [kind, n]: kind "absent" (no such key), "int" (a Python  *)
(*     int n) or "str" (a Python str holding the digits of n);             *)
(*   - an optional mapping is [kind, m]: kind "absent", "list" (a value    *)
(*     that is not a mapping) or "map" (a dict, m its items);              *)
(*   - an optional value is a sequence of length 0 or 1.                   *)
(*                                                                         *)
(* analyze_data is an `async def` whose only awaits are of call_ai_model,  *)
(* and call_ai_model uses the blocking OpenAI client and never suspends:   *)
(* a handler therefore runs to its return without yielding the event loop, *)
(* and at most one handler frame is live at a time.  The model keeps the   *)
(* locals of that one frame; its steps are cut at the external calls,      *)
(* where the service's answer is chosen.                                   *)
(***************************************************************************)
EXTENDS Integers, Sequences, FiniteSets, TLC

VARIABLES
    analysis_results,     \* the module-level list of stored results
    responses,            \* responses[i]: the envelope returned to the i-th request
    arrived,              \* number of requests whose handler has been entered
    cur,                  \* the request being handled (0: the event loop is free)
    pc,                   \* position of the live handler
    request,              \* the request body of the live (or last) handler
    objective_qa_pairs,
    objective_scores,
    subjective_scores,
    subjective_analysis,
    total_scores,
    todo,                 \* the part of dimensions_with_data not yet iterated
    calls,                \* the call_ai_model calls issued by this handler, in order
    replies,              \* what call_ai_model gave for each of them
    content,              \* extractor: the completion text (response.choices[0].message.content)
    payload,              \* extractor: the value the service wrote into that text, if any
    extracted             \* extractor: what json.loads gave for it

vars == <<analysis_results, responses, arrived, cur, pc, request,
          objective_qa_pairs, objective_scores, subjective_scores,
          subjective_analysis, total_scores, todo, calls, replies,
          content, payload, extracted>>

pipelineVars == <<analysis_results, responses, arrived, cur, pc, request,
                  objective_qa_pairs, objective_scores, subjective_scores,
                  subjective_analysis, total_scores, todo, calls, replies>>

extractorVars == <<content, payload, extracted>>

-----------------------------------------------------------------------------
(* Bounds of the model. *)

MaxQuestions == 2
MaxRequests == 2
MaxStr == 2

-----------------------------------------------------------------------------
(* Fixed data of the program. *)

Dimensions == <<"R", "E", "A", "D", "Y">>

DimSet == {Dimensions[i] : i \in 1..Len(Dimensions)}

SubjectiveTypes == {"subject_question", "career_transition", "career_choice"}

DefaultScore == 2

NoKey == "<none>"

NoUser == "<none>"

EmptyMap == [x \in {} |-> 0]

Absent == [kind |-> "absent", n |-> 0]

IntScore(k) == [kind |-> "int", n |-> k]

StrScore(k) == [kind |-> "str", n |-> k]

NoMap == [kind |-> "absent", m |-> EmptyMap]

Map(f) == [kind |-> "map", m |-> f]

ZeroScores == [d \in DimSet |-> 0]

Min(S) == CHOOSE x \in S : \A y \in S : x <= y

str(i) == ToString(i)


-----------------------------------------------------------------------------
(* The text-generation service and call_ai_model. *)

\* What json.loads gives for one completion, or the failure of the call before
\* it (kind "fail": transport error, timeout, no choices, JSON syntax error).
\* kind "list" is a JSON array, "number" a JSON number or null, "dict" an object
\* with the optional keys score, analysis, key_traits, dimensions and
\* dimension_scores.  analysis is "absent", "text" (a str) or "number" (a
\* non-zero number); key_traits is "absent", "empty" ([]), "texts" (a list of
\* str) or "numbers" (a list of numbers).
Value(kind, score, analysis, key_traits, dimensions, dimension_scores) ==
    [kind |-> kind, score |-> score, analysis |-> analysis,
     key_traits |-> key_traits, dimensions |-> dimensions,
     dimension_scores |-> dimension_scores]

Dict(score, analysis, key_traits, dimensions, dimension_scores) ==
    Value("dict", score, analysis, key_traits, dimensions, dimension_scores)

\* One entry of a "dimensions" mapping: a dict ("dict", with its optional
\* score), a str that does not contain "score" ("text"), or a number.
Entry(kind, score) == [kind |-> kind, score |-> score]

Failure == Value("fail", Absent, "absent", "absent", NoMap, NoMap)

\* The exception call_ai_model re-raises (line 108).
Raised == Value("raise", Absent, "absent", "absent", NoMap, NoMap)

\* Lines 93-98: the dimension_scores derived from data["dimensions"].
derived_scores(dims) ==
    Map([k \in {x \in DOMAIN dims.m : dims.m[x].score.kind # "absent"}
            |-> dims.m[k].score])

\* call_ai_model, from the parsed completion on (lines 74-108).
call_ai_model(c) ==
    CASE c.kind = "fail" -> Raised
      [] c.kind = "number" -> Raised          \* `"dimensions" in data`: TypeError
      [] c.kind = "list" -> c                 \* `"dimensions" in data` is False
      [] OTHER ->
           IF c.dimensions.kind = "absent" THEN c
           ELSE IF c.dimensions.kind = "list" THEN Raised      \* no .items()
           ELSE IF \E k \in DOMAIN c.dimensions.m :
                       c.dimensions.m[k].kind = "number"
                THEN Raised                   \* `"score" in dim_detail`: TypeError
           ELSE [c EXCEPT !.dimension_scores = derived_scores(c.dimensions)]

-----------------------------------------------------------------------------
(* analyze_data, up to the first external call (lines 114-249). *)

\* Lines 126-134: the options kept for a question.
format_options(q) ==
    IF q.type = "single_choice"
    THEN [j \in 1..Len(q.options) |->
            [key |-> IF q.options[j].key = NoKey THEN str(j) ELSE q.options[j].key,
             content |-> q.options[j].content,
             score |-> q.options[j].score]]
    ELSE <<>>

\* Lines 121-143.
format_questions(questions) ==
    [i \in 1..Len(questions) |->
        [id |-> IF questions[i].id = NoKey THEN str(i) ELSE questions[i].id,
         stem |-> questions[i].stem,
         type |-> questions[i].type,
         options |-> format_options(questions[i]),
         dimension |-> questions[i].dimension]]

is_subjective(type) == type \in SubjectiveTypes

\* Lines 155-161, 169: the qa_pair of an answered question.
qa_pair(q, answers) ==
    [question |-> q.stem, dimension |-> q.dimension, answer |-> answers[q.id],
     type |-> q.type,
     options |-> IF is_subjective(q.type) THEN <<>> ELSE q.options,
     user_choice |-> <<>>]

\* Lines 149-170: the answered questions of one class, in question order.
RECURSIVE qa_pairs(_, _, _, _)
qa_pairs(formatted, answers, subjective, i) ==
    IF i > Len(formatted) THEN <<>>
    ELSE LET q == formatted[i]
             rest == qa_pairs(formatted, answers, subjective, i + 1)
         IN IF q.id \in DOMAIN answers /\ is_subjective(q.type) = subjective
            THEN <<qa_pair(q, answers)>> \o rest
            ELSE rest

\* Lines 180-188: the first option whose key is the answer, if any.
RECURSIVE user_choice(_, _, _)
user_choice(options, answer, j) ==
    IF j > Len(options) THEN <<>>
    ELSE IF options[j].key = answer
         THEN <<[key |-> answer, content |-> options[j].content,
                 score |-> options[j].score]>>
         ELSE user_choice(options, answer, j + 1)

\* Lines 177-188.
with_user_choice(pairs) ==
    [i \in 1..Len(pairs) |->
        [pairs[i] EXCEPT !.user_choice = user_choice(pairs[i].options, pairs[i].answer, 1)]]

\* A variant of sum_objective that assigns the score instead of adding it.
RECURSIVE sum_objective_assign(_, _, _)
sum_objective_assign(pairs, scores, i) ==
    IF i > Len(pairs) THEN scores
    ELSE LET qa == pairs[i]
             dimension == qa.dimension.names[1]
         IN IF dimension \in DOMAIN scores /\ qa.user_choice # <<>>
            THEN sum_objective_assign(pairs,
                     [scores EXCEPT ![dimension] = qa.user_choice[1].score], i + 1)
            ELSE sum_objective_assign(pairs, scores, i + 1)

\* Lines 191-195.  A choice question declares one dimension, a string
\* (names = <<it>>); only subjective questions are sent with a list.
RECURSIVE sum_objective(_, _, _)
sum_objective(pairs, scores, i) ==
    IF i > Len(pairs) THEN scores
    ELSE LET qa == pairs[i]
             dimension == qa.dimension.names[1]
         IN IF dimension \in DOMAIN scores /\ qa.user_choice # <<>>
            THEN sum_objective(pairs,
                     [scores EXCEPT ![dimension] = @ + qa.user_choice[1].score], i + 1)
            ELSE sum_objective(pairs, scores, i + 1)

\* Lines 216-226: the recognised dimensions of one subjective qa_pair.
dims_to_process(qa) ==
    IF qa.dimension.list
    THEN SelectSeq(qa.dimension.names, LAMBDA d : d # "" /\ d \in DimSet)
    ELSE IF qa.dimension.names[1] # "" /\ qa.dimension.names[1] \in DimSet
         THEN <<qa.dimension.names[1]>>
         ELSE <<>>

\* Lines 209-234: per dimension, the {question, answer} of the pairs that name it.
RECURSIVE responses_of(_, _, _)
responses_of(pairs, dim, i) ==
    IF i > Len(pairs) THEN <<>>
    ELSE LET qa == pairs[i]
             dims == dims_to_process(qa)
             n == Cardinality({k \in 1..Len(dims) : dims[k] = dim})
             one == [question |-> qa.question, answer |-> qa.answer]
         IN [k \in 1..n |-> one] \o responses_of(pairs, dim, i + 1)

dimension_responses(pairs) == [d \in DimSet |-> responses_of(pairs, d, 1)]

\* A variant of dimensions_with_data that keeps every dimension.
dimensions_with_data_all(pairs) == Dimensions

\* A variant of dimensions_with_data in the order the questions name them.
RECURSIVE first_seen(_, _, _)
first_seen(pairs, i, seen) ==
    IF i > Len(pairs) THEN seen
    ELSE first_seen(pairs, i + 1,
             seen \o SelectSeq(dims_to_process(pairs[i]),
                               LAMBDA d : \A k \in 1..Len(seen) : seen[k] # d))

dimensions_with_data_by_question(pairs) == first_seen(pairs, 1, <<>>)

\* Line 237, and the `if subjective_qa_pairs` of line 205.
dimensions_with_data(pairs) ==
    LET resp == dimension_responses(pairs)
    IN SelectSeq(Dimensions, LAMBDA d : resp[d] # <<>>)


-----------------------------------------------------------------------------
(* call_ai_model, from the completion text to the parsed value (lines 78-90). *)
(* A text is a sequence of characters, each a string.                        *)

Whitespace == {" ", "\n"}

DigitChars == {str(k) : k \in 0..9}

DigitValue(c) == CHOOSE k \in 0..9 : str(k) = c

\* The backtick, which a TLA+ string cannot hold.
Backtick == "backtick"

Fence == <<Backtick, Backtick, Backtick>>

OpenFence == Fence \o <<"j", "s", "o", "n">>

\* A parsed JSON value: a number, a string, an array or an object (its keys in
\* order, its values in items).
JNum(n) == [t |-> "num", n |-> n, s |-> <<>>, keys |-> <<>>, items |-> <<>>]

JStr(s) == [t |-> "str", n |-> 0, s |-> s, keys |-> <<>>, items |-> <<>>]

JArr(items) == [t |-> "arr", n |-> 0, s |-> <<>>, keys |-> <<>>, items |-> items]

JObj(keys, items) == [t |-> "obj", n |-> 0, s |-> <<>>, keys |-> keys, items |-> items]

StartsWith(s, i, p) ==
    /\ i + Len(p) - 1 <= Len(s)
    /\ \A k \in 1..Len(p) : s[i + k - 1] = p[k]

\* The position after the whitespace that starts at position i.
RECURSIVE skip_ws(_, _)
skip_ws(s, i) ==
    IF i <= Len(s) /\ s[i] \in Whitespace THEN skip_ws(s, i + 1) ELSE i

\* Line 79: the re.search for a fenced json block; group 1 of the leftmost
\* match (whitespace after the opening fence and before the closing one is
\* not part of it, and the group is as short as can be), or <<>> for no match.
json_match(text) ==
    LET closes(e) == StartsWith(text, skip_ws(text, e), Fence)
        starts == {i \in 1..Len(text) :
                      /\ StartsWith(text, i, OpenFence)
                      /\ \E e \in skip_ws(text, i + Len(OpenFence))..(Len(text) + 1) :
                            closes(e)}
    IN IF starts = {} THEN <<>>
       ELSE LET g == skip_ws(text, Min(starts) + Len(OpenFence))
                e == Min({x \in g..(Len(text) + 1) : closes(x)})
            IN <<SubSeq(text, g, e - 1)>>

\* Lines 86-87: each re.sub, for closer "}" and for closer "]": a comma, any
\* whitespace and the closer become the closer, matches taken left to right.
RECURSIVE drop_comma_before(_, _, _)
drop_comma_before(s, i, closer) ==
    IF i > Len(s) THEN <<>>
    ELSE LET j == skip_ws(s, i + 1)
         IN IF s[i] = "," /\ j <= Len(s) /\ s[j] = closer
            THEN <<closer>> \o drop_comma_before(s, j + 1, closer)
            ELSE <<s[i]>> \o drop_comma_before(s, i + 1, closer)

\* json.loads (line 90): a recursive-descent parse; ok is FALSE where it raises.
Bad == [ok |-> FALSE, v |-> JNum(0), next |-> 0]

Good(v, next) == [ok |-> TRUE, v |-> v, next |-> next]

RECURSIVE scan_number(_, _, _)
scan_number(s, i, acc) ==
    IF i <= Len(s) /\ s[i] \in DigitChars
    THEN scan_number(s, i + 1, 10 * acc + DigitValue(s[i]))
    ELSE Good(JNum(acc), i)

\* A string runs to the next quote; a raw newline in it is rejected.
scan_string(s, i) ==
    LET ends == {j \in (i + 1)..Len(s) : s[j] = "\""}
    IN IF ends = {} THEN Bad
       ELSE IF \E j \in (i + 1)..(Min(ends) - 1) : s[j] = "\n" THEN Bad
       ELSE Good(JStr(SubSeq(s, i + 1, Min(ends) - 1)), Min(ends) + 1)

\* A key met again keeps its place and takes the later value.
put(obj, key, v) ==
    IF \E k \in 1..Len(obj.keys) : obj.keys[k] = key
    THEN JObj(obj.keys, [k \in 1..Len(obj.keys) |->
                            IF obj.keys[k] = key THEN v ELSE obj.items[k]])
    ELSE JObj(Append(obj.keys, key), Append(obj.items, v))

RECURSIVE parse_value(_, _)
RECURSIVE parse_elements(_, _, _)
RECURSIVE parse_members(_, _, _)

parse_value(s, from) ==
    LET i == skip_ws(s, from)
    IN IF i > Len(s) THEN Bad
       ELSE IF s[i] = "\"" THEN scan_string(s, i)
       ELSE IF s[i] \in DigitChars THEN scan_number(s, i, 0)
       ELSE IF s[i] = "["
            THEN LET j == skip_ws(s, i + 1)
                 IN IF j <= Len(s) /\ s[j] = "]" THEN Good(JArr(<<>>), j + 1)
                    ELSE parse_elements(s, i + 1, <<>>)
       ELSE IF s[i] = "{"
            THEN LET j == skip_ws(s, i + 1)
                 IN IF j <= Len(s) /\ s[j] = "}" THEN Good(JObj(<<>>, <<>>), j + 1)
                    ELSE parse_members(s, i + 1, JObj(<<>>, <<>>))
       ELSE Bad

parse_elements(s, from, items) ==
    LET r == parse_value(s, from)
        j == skip_ws(s, r.next)
    IN IF ~r.ok \/ j > Len(s) THEN Bad
       ELSE IF s[j] = "," THEN parse_elements(s, j + 1, Append(items, r.v))
       ELSE IF s[j] = "]" THEN Good(JArr(Append(items, r.v)), j + 1)
       ELSE Bad

parse_members(s, from, obj) ==
    LET k == skip_ws(s, from)
    IN IF k > Len(s) \/ s[k] # "\"" THEN Bad
       ELSE LET key == scan_string(s, k)
                c == skip_ws(s, key.next)
            IN IF ~key.ok \/ c > Len(s) \/ s[c] # ":" THEN Bad
               ELSE LET r == parse_value(s, c + 1)
                        j == skip_ws(s, r.next)
                    IN IF ~r.ok \/ j > Len(s) THEN Bad
                       ELSE IF s[j] = ","
                            THEN parse_members(s, j + 1, put(obj, key.v.s, r.v))
                       ELSE IF s[j] = "}"
                            THEN Good(put(obj, key.v.s, r.v), j + 1)
                       ELSE Bad

Pending == [state |-> "pending", v |-> <<>>]

json_loads(s) ==
    LET r == parse_value(s, 1)
    IN IF r.ok /\ skip_ws(s, r.next) > Len(s)
       THEN [state |-> "parsed", v |-> <<r.v>>]
       ELSE [state |-> "raised", v |-> <<>>]

\* Lines 79-90.
extract(text) ==
    LET m == json_match(text)
        json_str == IF m # <<>> THEN m[1] ELSE text
    IN json_loads(drop_comma_before(drop_comma_before(json_str, 1, "}"), 1, "]"))

\* call_ai_model on one completion text.
Extract ==
    /\ extracted = Pending
    /\ content # <<>>
    /\ extracted' = extract(content)
    /\ UNCHANGED <<pipelineVars, content, payload>>

-----------------------------------------------------------------------------
(* The responses and the stored results. *)

\* Lines 439-443.
Success(data) == [code |-> 200, message |-> "ok", data |-> <<data>>]

\* A variant of Error that still hands out data.
Error_with_data(e) == [code |-> 500, message |-> e, data |-> <<e>>]

\* Lines 448-452; message is str(e) of the exception caught at line 445.
Error(e) == [code |-> 500, message |-> e, data |-> <<>>]

\* A variant of fallback whose record carries another score than the default.
fallback_zero == Dict(IntScore(0), "text", "empty", NoMap, NoMap)

\* Lines 292-296.
fallback == Dict(IntScore(DefaultScore), "text", "empty", NoMap, NoMap)

\* Lines 409-413.  `request` is not a key of the stored dict: it records which
\* handler appended the entry.  The timestamp is left out.
log_entry(id, user_info, result) ==
    [request |-> id,
     username |-> IF user_info.username = NoUser THEN "unknown" ELSE user_info.username,
     result |-> result]

\* Lines 300-302: the totals, or, when a subjective score is a str, the entries
\* written before `objective_scores[dim] + subjective_scores[dim]` raised.
total_raises(subj) == \E d \in DimSet : subj[d].kind = "str"

total_of(obj, subj) ==
    LET bad == {i \in 1..Len(Dimensions) : subj[Dimensions[i]].kind = "str"}
        done == {Dimensions[i] : i \in {j \in 1..Len(Dimensions) :
                                          \A b \in bad : j < b}}
    IN [d \in done |-> obj[d] + subj[d].n]

\* Lines 400-403 raise when a recognised dimension's entry is a str.
reconcile_raises(dims) ==
    /\ dims.kind = "map"
    /\ \E k \in DOMAIN dims.m : k \in DimSet /\ dims.m[k].kind # "dict"

\* A variant of reconcile that keeps the score an entry already has.
reconcile_missing_only(dims, total) ==
    IF dims.kind # "map" THEN dims
    ELSE Map([k \in DOMAIN dims.m |->
                IF k \in DOMAIN total /\ dims.m[k].score.kind = "absent"
                THEN [dims.m[k] EXCEPT !.score = IntScore(total[k])]
                ELSE dims.m[k]])

\* Lines 400-403.
reconcile(dims, total) ==
    IF dims.kind # "map" THEN dims
    ELSE Map([k \in DOMAIN dims.m |->
                IF k \in DOMAIN total
                THEN [dims.m[k] EXCEPT !.score = IntScore(total[k])]
                ELSE dims.m[k]])

\* Lines 395-406: the report, with the computed scores attached.
assemble(analysis_result, obj, subj, total, analysis) ==
    [score |-> analysis_result.score,
     analysis |-> analysis_result.analysis,
     key_traits |-> analysis_result.key_traits,
     objective_scores |-> obj,
     subjective_scores |-> subj,
     dimension_scores |-> total,
     dimensions |-> reconcile(analysis_result.dimensions, total),
     subjective_analysis |-> analysis]

\* Lines 420-429: value[:50] of an analysis that is a number, or the join of
\* key_traits that are not str, raises TypeError.
print_raises(analysis) ==
    \E d \in DOMAIN analysis :
        analysis[d].analysis = "number" \/ analysis[d].key_traits = "numbers"

-----------------------------------------------------------------------------
(* The handler's steps. *)

\* Lines 112-249: a request enters the handler, which runs to its first call.
Receive(r, limit) ==
    /\ cur = 0
    /\ arrived < limit
    /\ LET formatted == format_questions(r.questions)
           objective == with_user_choice(qa_pairs(formatted, r.answers, FALSE, 1))
           subjective == qa_pairs(formatted, r.answers, TRUE, 1)
       IN /\ arrived' = arrived + 1
          /\ request' = r
          /\ objective_qa_pairs' = objective
          /\ objective_scores' = sum_objective(objective, ZeroScores, 1)
          /\ subjective_scores' = [d \in DimSet |-> IntScore(0)]
          /\ subjective_analysis' = EmptyMap
          /\ total_scores' = EmptyMap
          /\ calls' = <<>>
          /\ replies' = <<>>
          /\ cur' = arrived + 1
          /\ pc' = "subjective"
          /\ todo' = dimensions_with_data(subjective)
    /\ UNCHANGED <<analysis_results, responses, extractorVars>>

\* Lines 246-297: one iteration of `for dim in dimensions_with_data`, with the
\* call it makes.  A list passes line 287 and raises at subj_result.get (line
\* 289), inside the try.
ScoreDimension(c) ==
    /\ cur # 0
    /\ pc = "subjective"
    /\ todo # <<>>
    /\ LET dim == Head(todo)
           subj_result == call_ai_model(c)
           caught == subj_result.kind \in {"raise", "list"}
       IN /\ subjective_analysis' =
                [d \in DOMAIN subjective_analysis \cup {dim} |->
                    IF d # dim THEN subjective_analysis[d]
                    ELSE IF caught THEN fallback ELSE subj_result]
          /\ subjective_scores' =
                [subjective_scores EXCEPT ![dim] =
                    IF caught THEN IntScore(DefaultScore)
                    ELSE IF subj_result.score.kind # "absent" THEN subj_result.score
                    ELSE @]
          /\ calls' = Append(calls, dim)
          /\ replies' = Append(replies, subj_result)
          /\ todo' = Tail(todo)
    /\ UNCHANGED <<analysis_results, responses, arrived, cur, pc, request,
                   objective_qa_pairs, objective_scores, total_scores,
                   extractorVars>>

\* The handler returns `response` (lines 439-452).
Return(response) ==
    /\ responses' = Append(responses, response)
    /\ cur' = 0
    /\ pc' = "done"

\* Lines 299-452: the totals, the report call and the rest of the handler.
Report(c) ==
    /\ cur # 0
    /\ pc = "subjective"
    /\ todo = <<>>
    /\ total_scores' = total_of(objective_scores, subjective_scores)
    /\ IF total_raises(subjective_scores)
       THEN /\ Return(Error("unsupported operand type(s) for +: 'int' and 'str'"))
            /\ UNCHANGED <<analysis_results, calls, replies>>
       ELSE LET analysis_result == call_ai_model(c)
                result == assemble(analysis_result, objective_scores,
                                   subjective_scores, total_scores',
                                   subjective_analysis)
            IN /\ calls' = Append(calls, "report")
               /\ replies' = Append(replies, analysis_result)
               /\ CASE analysis_result.kind = "raise" ->
                         /\ Return(Error("call_ai_model raised"))
                         /\ UNCHANGED analysis_results
                    [] analysis_result.kind = "list" ->
                         /\ Return(Error("list indices must be integers or slices, not str"))
                         /\ UNCHANGED analysis_results
                    [] analysis_result.kind = "dict"
                       /\ reconcile_raises(analysis_result.dimensions) ->
                         /\ Return(Error("'str' object does not support item assignment"))
                         /\ UNCHANGED analysis_results
                    [] OTHER ->
                         /\ analysis_results' =
                                Append(analysis_results,
                                       log_entry(cur, request.user_info, result))
                         /\ IF print_raises(subjective_analysis)
                            THEN Return(Error("object is not subscriptable"))
                            ELSE Return(Success(result))
    /\ UNCHANGED <<arrived, request, objective_qa_pairs, objective_scores,
                   subjective_scores, subjective_analysis, todo, extractorVars>>


-----------------------------------------------------------------------------
(* The requests clients send and the completions the service gives. *)

Str(d) == [list |-> FALSE, names |-> <<d>>]

List(ds) == [list |-> TRUE, names |-> ds]

Option(key, label, score) == [key |-> key, content |-> label, score |-> score]

Question(id, stem, type, dimension, options) ==
    [id |-> id, stem |-> stem, type |-> type, dimension |-> dimension,
     options |-> options]

\* A question with the answer submitted for it (NoKey: none).
Item(q, answer) == [q |-> q, answer |-> answer]

TwoOptions == <<Option("1", "a", 2), Option("2", "b", 4)>>

UnkeyedOptions == <<Option(NoKey, "c", 1), Option(NoKey, "d", 3)>>

Items ==
    { Item(Question(NoKey, "o1", "single_choice", Str("R"), TwoOptions), "2"),
      Item(Question(NoKey, "o2", "single_choice", Str("R"), UnkeyedOptions), "1"),
      Item(Question(NoKey, "o3", "single_choice", Str("E"), TwoOptions), "3"),
      Item(Question(NoKey, "o4", "single_choice", Str("X"), TwoOptions), "2"),
      Item(Question(NoKey, "o5", "multi_choice", Str("R"), TwoOptions), "2"),
      Item(Question(NoKey, "o6", "single_choice", Str("E"), TwoOptions), NoKey),
      Item(Question("s1", "s1", "subject_question", Str("R"), <<>>), "text"),
      Item(Question(NoKey, "s2", "career_choice", Str("E"), <<>>), "text"),
      Item(Question(NoKey, "s3", "career_transition", List(<<"E", "X">>), <<>>), "text"),
      Item(Question(NoKey, "s4", "subject_question", Str("X"), <<>>), "text"),
      Item(Question(NoKey, "s5", "subject_question", Str("R"), <<>>), NoKey) }

LogItems ==
    { Item(Question(NoKey, "o1", "single_choice", Str("R"), TwoOptions), "2"),
      Item(Question("s1", "s1", "subject_question", Str("R"), <<>>), "text") }

SeqsUpTo(S, n) == UNION {[1..k -> S] : k \in 0..n}

id_of(items, i) == IF items[i].q.id = NoKey THEN str(i) ELSE items[i].q.id

MakeRequest(username, items) ==
    LET answered == {i \in 1..Len(items) : items[i].answer # NoKey}
    IN [user_info |-> [username |-> username],
        questions |-> [i \in 1..Len(items) |-> items[i].q],
        answers |-> [k \in {id_of(items, i) : i \in answered} |->
                        items[CHOOSE i \in answered : id_of(items, i) = k].answer]]

Requests == {MakeRequest("amy", items) : items \in SeqsUpTo(Items, MaxQuestions)}

LogRequests ==
    {MakeRequest(u, items) : u \in {"amy", NoUser}, items \in SeqsUpTo(LogItems, 1)}

ReportDimensions ==
    Map([k \in {"R", "E", "X"} |->
            CASE k = "R" -> Entry("dict", IntScore(85))
              [] k = "E" -> Entry("dict", Absent)
              [] OTHER -> Entry("dict", IntScore(60))])

Completions ==
    { Failure,
      Value("list", Absent, "absent", "absent", NoMap, NoMap),
      Value("number", Absent, "absent", "absent", NoMap, NoMap),
      Dict(IntScore(3), "text", "texts", NoMap, NoMap),
      Dict(IntScore(7), "absent", "absent", NoMap, NoMap),
      Dict(StrScore(3), "absent", "absent", NoMap, NoMap),
      Dict(Absent, "number", "absent", NoMap, NoMap),
      Dict(Absent, "absent", "absent", ReportDimensions,
           Map([k \in {"R"} |-> IntScore(0)])),
      Dict(Absent, "absent", "absent",
           Map([k \in {"E", "X"} |-> Entry("text", Absent)]), NoMap),
      Dict(Absent, "absent", "absent", [kind |-> "list", m |-> EmptyMap], NoMap) }

LogCompletions ==
    { Failure,
      Dict(IntScore(3), "text", "texts", NoMap, NoMap),
      Dict(StrScore(3), "absent", "absent", NoMap, NoMap),
      Dict(Absent, "number", "absent", NoMap, NoMap),
      Dict(Absent, "absent", "absent", ReportDimensions, NoMap) }

-----------------------------------------------------------------------------
(* The specifications. *)

NoRequest == MakeRequest(NoUser, <<>>)

Init ==
    /\ analysis_results = <<>>
    /\ responses = <<>>
    /\ arrived = 0
    /\ cur = 0
    /\ pc = "idle"
    /\ request = NoRequest
    /\ objective_qa_pairs = <<>>
    /\ objective_scores = ZeroScores
    /\ subjective_scores = [d \in DimSet |-> IntScore(0)]
    /\ subjective_analysis = EmptyMap
    /\ total_scores = EmptyMap
    /\ todo = <<>>
    /\ calls = <<>>
    /\ replies = <<>>
    /\ content = <<>>
    /\ payload = <<>>
    /\ extracted = Pending

\* One request, of any shape, against a service that may answer anything.
Next ==
    \/ \E r \in Requests : Receive(r, 1)
    \/ \E c \in Completions : ScoreDimension(c)
    \/ \E c \in Completions : Report(c)

Spec == Init /\ [][Next]_vars

\* Several requests, one after the other.
NextLog ==
    \/ \E r \in LogRequests : Receive(r, MaxRequests)
    \/ \E c \in LogCompletions : ScoreDimension(c)
    \/ \E c \in LogCompletions : Report(c)

SpecLog == Init /\ [][NextLog]_vars


-----------------------------------------------------------------------------
(* The completion texts the extractor is run on. *)

StringChars == {"a", ",", "}", "]", " "}

Strings == SeqsUpTo(StringChars, MaxStr)

Leaves == {JNum(3)} \cup {JStr(x) : x \in Strings}

ScoreKey == <<"s", "c", "o", "r", "e">>

JsonValues ==
    Leaves
      \cup {JArr(<<>>), JObj(<<>>, <<>>)}
      \cup {JArr(<<x>>) : x \in Leaves}
      \cup {JArr(<<JNum(1), x>>) : x \in Leaves}
      \cup {JObj(<<ScoreKey>>, <<x>>) : x \in Leaves}
      \cup {JObj(<<<<"a">>, ScoreKey>>, <<JArr(<<x>>), JNum(3)>>) : x \in Leaves}

\* What may stand before a closing brace or bracket: nothing, or a comma with
\* or without whitespace after it.
Trails == {<<>>, <<",">>, <<",", " ">>, <<",", "\n", " ">>}

RECURSIVE digits(_)
digits(n) == IF n < 10 THEN <<str(n)>> ELSE Append(digits(n \div 10), str(n % 10))

\* The JSON text of a value, with `trail` before the closer of every non-empty
\* array and object.
RECURSIVE serialize(_, _)
RECURSIVE serialize_items(_, _, _)
serialize(v, trail) ==
    CASE v.t = "num" -> digits(v.n)
      [] v.t = "str" -> <<"\"">> \o v.s \o <<"\"">>
      [] v.t = "arr" ->
           <<"[">> \o serialize_items(v, trail, 1)
                   \o (IF v.items = <<>> THEN <<>> ELSE trail) \o <<"]">>
      [] OTHER ->
           <<"{">> \o serialize_items(v, trail, 1)
                   \o (IF v.items = <<>> THEN <<>> ELSE trail) \o <<"}">>

serialize_items(v, trail, k) ==
    IF k > Len(v.items) THEN <<>>
    ELSE (IF k > 1 THEN <<",", " ">> ELSE <<>>)
         \o (IF v.t = "obj" THEN <<"\"">> \o v.keys[k] \o <<"\"", ":", " ">> ELSE <<>>)
         \o serialize(v.items[k], trail)
         \o serialize_items(v, trail, k + 1)

\* The payload alone, or fenced with prose around the fence.
Wrap(text, fenced) ==
    IF fenced
    THEN <<"a", " ">> \o OpenFence \o <<"\n">> \o text \o <<"\n">> \o Fence \o <<"\n", "a">>
    ELSE text

\* Texts no repair makes well-formed.
Garbage ==
    { <<"a">>,
      <<"[", "1", ",", ",", "]">>,
      <<"{", "\"", "a", "\"", " ", "1", "}">>,
      <<"[", "1", "]", "]">>,
      <<"[", "1">>,
      OpenFence \o <<"\n", "[", "1", "]">> }

InitExtract ==
    /\ analysis_results = <<>>
    /\ responses = <<>>
    /\ arrived = 0
    /\ cur = 0
    /\ pc = "idle"
    /\ request = NoRequest
    /\ objective_qa_pairs = <<>>
    /\ objective_scores = ZeroScores
    /\ subjective_scores = [d \in DimSet |-> IntScore(0)]
    /\ subjective_analysis = EmptyMap
    /\ total_scores = EmptyMap
    /\ todo = <<>>
    /\ calls = <<>>
    /\ replies = <<>>
    /\ extracted = Pending
    /\ \/ \E v \in JsonValues, trail \in Trails, fenced \in BOOLEAN :
             /\ content = Wrap(serialize(v, trail), fenced)
             /\ payload = <<v>>
       \/ /\ content \in Garbage
          /\ payload = <<>>

NextExtract == Extract

SpecExtract == InitExtract /\ [][NextExtract]_vars

-----------------------------------------------------------------------------
(* What the properties below speak about. *)

\* The handler of the last request has returned: the locals are its own.
Finished == cur = 0 /\ arrived > 0

Last == responses[Len(responses)]

Returned200 == Finished /\ Last.code = 200

LastData == Last.data[1]

QuestionId(i) ==
    IF request.questions[i].id = NoKey THEN str(i) ELSE request.questions[i].id

Answered(i) == QuestionId(i) \in DOMAIN request.answers

\* An answered subjective question of the request names dimension d.
Populated(d) ==
    \E i \in 1..Len(request.questions) :
        /\ request.questions[i].type \in SubjectiveTypes
        /\ Answered(i)
        /\ \E k \in 1..Len(request.questions[i].dimension.names) :
              request.questions[i].dimension.names[k] = d

ExpectedCalls == SelectSeq(Dimensions, LAMBDA d : Populated(d)) \o <<"report">>

IsPrefix(s, t) == Len(s) <= Len(t) /\ \A i \in 1..Len(s) : s[i] = t[i]

RECURSIVE SumOver(_, _)
SumOver(S, f) ==
    IF S = {} THEN 0 ELSE LET x == CHOOSE y \in S : TRUE IN f[x] + SumOver(S \ {x}, f)

RECURSIVE Ascending(_)
Ascending(S) == IF S = {} THEN <<>> ELSE <<Min(S)>> \o Ascending(S \ {Min(S)})

\* The options of question i whose key, defaulted to its position, is the answer.
Matches(i) ==
    LET q == request.questions[i]
    IN {j \in 1..Len(q.options) :
          (IF q.options[j].key = NoKey THEN str(j) ELSE q.options[j].key)
             = request.answers[QuestionId(i)]}

Resolved(i) ==
    request.questions[i].type = "single_choice" /\ Answered(i) /\ Matches(i) # {}

Chosen(i) == request.questions[i].options[Min(Matches(i))]

ExpectedObjective(d) ==
    LET S == {i \in 1..Len(request.questions) :
                 Resolved(i) /\ request.questions[i].dimension = Str(d)}
    IN SumOver(S, [i \in S |-> Chosen(i).score])

ObjectiveQuestions ==
    Ascending({i \in 1..Len(request.questions) :
                  Answered(i) /\ request.questions[i].type \notin SubjectiveTypes})

-----------------------------------------------------------------------------
(* The claims. *)

\* C1 as stated: in every code 200 response, every total is the objective plus
\* the subjective score, and every key of the returned `dimensions` mapping,
\* whatever it is, has a total and carries it as its score.
C1_EveryKeyReconciled ==
    \A i \in 1..Len(responses) :
        responses[i].code = 200 =>
            LET data == responses[i].data[1]
            IN /\ \A d \in DimSet :
                     data.dimension_scores[d] =
                        data.objective_scores[d] + data.subjective_scores[d].n
               /\ data.dimensions.kind = "map" =>
                     \A k \in DOMAIN data.dimensions.m :
                        /\ k \in DOMAIN data.dimension_scores
                        /\ data.dimensions.m[k].score =
                              IntScore(data.dimension_scores[k])

\* C1, amended: in every code 200 response, every total is the objective plus
\* the subjective score, and every key of the returned `dimensions` mapping
\* that is one of R, E, A, D, Y carries that dimension's total as its score.
C1_FixedKeysReconciled ==
    \A i \in 1..Len(responses) :
        responses[i].code = 200 =>
            LET data == responses[i].data[1]
            IN /\ DOMAIN data.dimension_scores = DimSet
               /\ \A d \in DimSet :
                     /\ data.subjective_scores[d].kind = "int"
                     /\ data.dimension_scores[d] =
                           data.objective_scores[d] + data.subjective_scores[d].n
               /\ data.dimensions.kind = "map" =>
                     \A k \in DOMAIN data.dimensions.m \cap DimSet :
                        data.dimensions.m[k].score =
                           IntScore(data.dimension_scores[k])

\* A code 200 response whose report gave R a score of its own, replaced by a
\* total made of an objective and a subjective part.
C1_Witness ==
    /\ Returned200
    /\ replies[Len(replies)].dimensions.kind = "map"
    /\ replies[Len(replies)].dimensions.m["R"].score = IntScore(85)
    /\ LastData.objective_scores["R"] = 4
    /\ LastData.subjective_scores["R"] = IntScore(3)
    /\ LastData.dimensions.m["R"].score = IntScore(7)
    /\ LastData.dimensions.m["E"].score = IntScore(LastData.dimension_scores["E"])

\* C2 as stated: at every point, every subjective score is an integer in 0..4.
C2_SubjectiveInRange ==
    \A d \in DimSet :
        subjective_scores[d].kind = "int" /\ subjective_scores[d].n \in 0..4

\* C3: a dimension whose call failed holds the fallback (score 2, key_traits
\* []) and the score 2; the entries of every called dimension follow from that
\* dimension's own reply, whatever the other calls gave; and a response that
\* carries data carries these entries.
C3_FallbackIsolated ==
    \A i \in 1..Len(calls) :
        calls[i] \in DimSet =>
            LET d == calls[i]
                own == replies[i]
            IN /\ d \in DOMAIN subjective_analysis
               /\ own.kind # "dict" =>
                     /\ subjective_scores[d] = IntScore(2)
                     /\ subjective_analysis[d].score = IntScore(2)
                     /\ subjective_analysis[d].key_traits = "empty"
               /\ own.kind = "dict" =>
                     /\ subjective_analysis[d] = own
                     /\ subjective_scores[d] =
                           (IF own.score.kind = "absent" THEN IntScore(0) ELSE own.score)
               /\ Returned200 =>
                     /\ LastData.subjective_scores[d] = subjective_scores[d]
                     /\ d \in DOMAIN LastData.subjective_analysis
                     /\ LastData.subjective_analysis[d] = subjective_analysis[d]

\* A code 200 response after the first dimension's call failed and the second
\* one's gave a score of 3.
C3_Witness ==
    /\ Returned200
    /\ calls = <<"R", "E", "report">>
    /\ replies[1].kind = "raise"
    /\ replies[2].kind = "dict" /\ replies[2].score = IntScore(3)
    /\ LastData.subjective_scores["R"] = IntScore(2)
    /\ LastData.subjective_analysis["R"].score = IntScore(2)
    /\ LastData.subjective_analysis["R"].key_traits = "empty"
    /\ LastData.subjective_scores["E"] = IntScore(3)
    /\ LastData.subjective_analysis["E"] = replies[2]

\* C4 as stated: whatever the subjective calls gave, a handler that has
\* returned has issued the report call.
C4_SubjectiveNeverAborts ==
    Finished => calls # <<>> /\ calls[Len(calls)] = "report"

\* C5: every handler that has returned has given exactly one envelope, code 200
\* with data or code 500 without; the report call is made at most once; a
\* request whose report call failed got code 500 without data and has no entry
\* in the results log; and once every handler has returned, the event loop is
\* free for the next request.
C5_Envelope ==
    /\ cur \in {0, arrived}
    /\ Len(responses) = (IF cur = 0 THEN arrived ELSE arrived - 1)
    /\ \A i \in 1..Len(responses) :
          \/ responses[i].code = 200 /\ Len(responses[i].data) = 1
          \/ responses[i].code = 500 /\ responses[i].data = <<>>
    /\ Cardinality({i \in 1..Len(calls) : calls[i] = "report"}) <= 1
    /\ (/\ Finished
        /\ calls # <<>>
        /\ calls[Len(calls)] = "report"
        /\ replies[Len(calls)].kind = "raise")
          => /\ Last.code = 500
             /\ Last.data = <<>>
             /\ \A k \in 1..Len(analysis_results) :
                   analysis_results[k].request # arrived
    /\ \A k \in 1..Len(analysis_results) :
          analysis_results[k].request <= Len(responses)
             => responses[analysis_results[k].request].message # "call_ai_model raised"

\* A request whose report call failed, followed by a request answered 200 whose
\* result is the only entry of the log.
C5_Witness ==
    /\ Len(responses) = 2
    /\ responses[1].code = 500
    /\ responses[1].message = "call_ai_model raised"
    /\ responses[2].code = 200
    /\ Len(analysis_results) = 1
    /\ analysis_results[1].request = 2

\* C6 as stated: the results log holds exactly the results of the requests
\* answered with code 200, in their order of arrival, each equal to the data
\* its caller got.
C6_LogMatchesSuccesses ==
    LET ok == {i \in 1..Len(responses) : responses[i].code = 200}
    IN /\ Len(analysis_results) = Cardinality(ok)
       /\ \A k \in 1..Len(analysis_results) :
             /\ analysis_results[k].request \in ok
             /\ responses[analysis_results[k].request].data
                   = <<analysis_results[k].result>>
       /\ \A k, l \in 1..Len(analysis_results) :
             k < l => analysis_results[k].request < analysis_results[l].request

\* C7: a dimension no answered subjective question names is never called, has
\* no analysis entry, keeps the subjective score 0 and gets the objective score
\* as its total; a request without such questions gets total = objective.
C7_UnpopulatedUntouched ==
    arrived > 0 =>
        /\ \A d \in DimSet :
              ~Populated(d) =>
                 /\ \A i \in 1..Len(calls) : calls[i] # d
                 /\ d \notin DOMAIN subjective_analysis
                 /\ subjective_scores[d] = IntScore(0)
                 /\ d \in DOMAIN total_scores => total_scores[d] = objective_scores[d]
                 /\ Returned200 =>
                       /\ LastData.subjective_scores[d] = IntScore(0)
                       /\ LastData.dimension_scores[d] = LastData.objective_scores[d]
                       /\ d \notin DOMAIN LastData.subjective_analysis
        /\ (Finished /\ \A d \in DimSet : ~Populated(d)) =>
              /\ subjective_scores = [d \in DimSet |-> IntScore(0)]
              /\ total_scores = objective_scores

\* A code 200 response to a request with a scored choice question of R and a
\* subjective question of E only.
C7_Witness ==
    /\ Returned200
    /\ ~Populated("R")
    /\ Populated("E")
    /\ calls = <<"E", "report">>
    /\ subjective_scores["E"] = IntScore(3)
    /\ objective_scores["R"] = 4
    /\ LastData.dimension_scores["R"] = 4
    /\ LastData.dimension_scores["E"] = 3

C9_CallOrder ==
    /\ Len(calls) <= Len(Dimensions) + 1
    /\ Len(replies) = Len(calls)
    /\ IsPrefix(calls, ExpectedCalls)
    /\ \A i, j \in 1..Len(calls) : i # j => calls[i] # calls[j]
    /\ cur # 0 => calls \o todo \o <<"report">> = ExpectedCalls
    /\ (\E i \in 1..Len(calls) : calls[i] = "report") => calls = ExpectedCalls
    /\ Returned200 => calls = ExpectedCalls

\* The subjective question of E comes before that of R in the request, and the
\* calls were R, E, report.
C9_Witness ==
    /\ Finished
    /\ Len(request.questions) = 2
    /\ request.questions[1].dimension = Str("E")
    /\ request.questions[2].dimension = Str("R")
    /\ calls = <<"R", "E", "report">>


\* C10 as stated: a text whose payload is well-formed but for commas before
\* closing braces and brackets, fenced or not, is parsed to the value of that
\* payload, also when its strings hold a comma followed by } or ].
C10_RepairKeepsValue ==
    (extracted # Pending /\ payload # <<>>) =>
        extracted = [state |-> "parsed", v |-> payload]

\* The same for the payloads in whose strings no comma is followed, across
\* whitespace, by } or ].
RECURSIVE CommaFree(_)
CommaFree(v) ==
    /\ drop_comma_before(drop_comma_before(v.s, 1, "}"), 1, "]") = v.s
    /\ \A k \in 1..Len(v.items) : CommaFree(v.items[k])

ExtractorSound ==
    /\ (extracted # Pending /\ payload # <<>> /\ CommaFree(payload[1])) =>
          extracted = [state |-> "parsed", v |-> payload]
    /\ (extracted # Pending /\ payload = <<>>) => extracted.state = "raised"

=============================================================================
